---- MODULE Spec2Model ----
(***************************************************************************)
(* A model of add_text_to_image.py: the overlay renderer's layout          *)
(* arithmetic, the two regex patches of the prompt files, and main's       *)
(* pipeline (safe variant, restricted variant, three downstream updates).  *)
(*                                                                         *)
(* Text is modelled as a sequence of tokens.  A token is one character     *)
(* ("(", ")", " ", "!", "&", a digit, "x") or one of the literal words the  *)
(* regular expressions name ("image", "Patreon", "Fanvue"); the trailing   *)
(* "s" of "images" is its own token, as the pattern images? treats it.     *)
(***************************************************************************)
EXTENDS Integers, Sequences, FiniteSets, TLC

VARIABLES
    \* ---- add_text_to_image, one call ----
    rargs,      \* the call's arguments and the opened image's size
    rout,       \* what the call computed and how it ended
    \* ---- _update_prompt_file on one file ----
    pfile,      \* the prompt file's content
    pnum,       \* num_images of this run
    pprev,      \* the content before the latest patch
    pruns,      \* patches applied so far
    \* ---- _update_socialmedia_file on socialmedia.txt ----
    sfile,      \* the file's content
    sinit,      \* its content before any patch
    snum,       \* platform -> num_images
    sprev,      \* the content before the latest patch
    slast,      \* the platforms patched so far, in order
    \* ---- main ----
    config,     \* the loaded configuration
    disk,       \* image path -> file content
    disk_in,    \* disk as main found it
    prompts,    \* prompt file name -> content
    pc,         \* main's position
    exit_status,\* the process's exit status once it ended
    calls,      \* the add_text_to_image calls made, in order
    attempted,  \* the downstream updates entered, in order
    warnings,   \* the downstream updates that printed [WARNING]
    sinks,      \* downstream config name -> its content
    overlay     \* disk and prompts when "All images processed" was printed

rvars == <<rargs, rout>>
pvars == <<pfile, pnum, pprev, pruns>>
svars == <<sfile, sinit, snum, sprev, slast>>
mvars == <<config, disk, disk_in, prompts, pc, exit_status, calls,
           attempted, warnings, sinks, overlay>>
vars == <<rargs, rout, pfile, pnum, pprev, pruns,
          sfile, sinit, snum, sprev, slast,
          config, disk, disk_in, prompts, pc, exit_status, calls,
          attempted, warnings, sinks, overlay>>

(***************************************************************************)
(* Bounds of the model.                                                    *)
(***************************************************************************)
MaxCount == 2        \* image counts are 0..MaxCount
MaxHeight == 12      \* image heights 1..MaxHeight, and those of TallHeights
MaxWidth == 3        \* image widths 1..MaxWidth
MaxTextWidth == 3    \* measured widths of a text line, 0..MaxTextWidth
MaxTextHeight == 2   \* measured heights of a text line, 0..MaxTextHeight
MaxLen == 5          \* tokens in a prompt file
MaxSegs == 4         \* segments in socialmedia.txt
MaxRuns == 2         \* successive patches of one file

\* num_images = None
None == -1

Counts == 0..MaxCount

(***************************************************************************)
(* Shared helpers: Python's str(int) and the singular/plural word.         *)
(***************************************************************************)
Digit(d) ==
    CASE d = 0 -> "0" [] d = 1 -> "1" [] d = 2 -> "2" [] d = 3 -> "3"
      [] d = 4 -> "4" [] d = 5 -> "5" [] d = 6 -> "6" [] d = 7 -> "7"
      [] d = 8 -> "8" [] d = 9 -> "9"

RECURSIVE Str(_)
Str(n) == IF n < 10 THEN <<Digit(n)>> ELSE Str(n \div 10) \o <<Digit(n % 10)>>

IsDigit(t) == t \in {"0", "1", "2", "3", "4", "5", "6", "7", "8", "9"}
IsSpace(t) == t = " "

\* image_word = "images" if num_images > 1 else "image"
ImageWord(n) == IF n > 1 THEN <<"image", "s">> ELSE <<"image">>

(***************************************************************************)
(* add_text_to_image: the layout arithmetic of one call.                   *)
(***************************************************************************)
Positions == {"bottom", "top", "center"}
TallHeights == {50, 100}
Heights == (1..MaxHeight) \cup TallHeights
Widths == 1..MaxWidth
Percents == {5, 29, 58}

\* int(img_height * (font_size_percent / 100)) is evaluated in IEEE-754 doubles:
\* the quotient p/100 is rounded, then the product, then int() truncates.  For
\* heights up to 100 and integer percentages 1..100 the result is the exact
\* floor of H*p/100, except at these arguments, where the double product lies
\* just below an integer and the result is one less.
FloatDeficit == {<<50, 58>>, <<90, 70>>, <<100, 29>>, <<100, 57>>, <<100, 58>>}

\* A defect the code does not have: round() in place of int()
FontSize_Rounded(H, p) == (H * p + 50) \div 100
FontSize(H, p) ==
    ((H * p) \div 100) - (IF <<H, p>> \in FloatDeficit THEN 1 ELSE 0)

\* int(font_size * 0.6) and int(font_size * 0.2); the double products truncate
\* to the exact floors for every font size the model reaches (checked to 5000).
CountFontSize(fs) == (fs * 6) \div 10
Spacing(fs) == (fs * 2) \div 10

\* count_text = f"({num_images} {image_word})"
CountText(n) == <<"(">> \o Str(n) \o <<" ">> \o ImageWord(n) \o <<")">>

\* total_height = text_height, plus spacing + count_height when count_text
TotalHeight(fs, th, ch, counted) ==
    IF counted THEN th + Spacing(fs) + ch ELSE th

\* Python's //: floor division (the divisors here are positive)
CenterX(W, w) == (W - w) \div 2

\* A defect the code does not have: the bottom placement without its margin
AnchorY_NoMargin(position, H, T) ==
    IF position = "bottom" THEN H - T
    ELSE IF position = "top" THEN H \div 10
    ELSE (H - T) \div 2
AnchorY(position, H, T) ==
    IF position = "bottom" THEN H - T - (H \div 10)
    ELSE IF position = "top" THEN H \div 10
    ELSE (H - T) \div 2

NoLayout ==
    [ended |-> "no", font_size |-> 0, text_width |-> 0, text_height |-> 0,
     count_text |-> <<>>, count_font_size |-> 0,
     count_width |-> 0, count_height |-> 0,
     total_height |-> 0, x |-> 0, y |-> 0, count_x |-> 0, count_y |-> 0]

Layout(a, tw, th, cw, ch) ==
    LET H == a.img_height
        W == a.img_width
        fs == FontSize(H, a.font_size_percent)
        counted == a.num_images # None
        T == TotalHeight(fs, th, ch, counted)
        y == AnchorY(a.position, H, T)
    IN  [ended |-> "saved", font_size |-> fs,
         text_width |-> tw, text_height |-> th,
         count_text |-> IF counted THEN CountText(a.num_images) ELSE <<>>,
         count_font_size |-> IF counted THEN CountFontSize(fs) ELSE 0,
         count_width |-> cw, count_height |-> ch,
         total_height |-> T, x |-> CenterX(W, tw), y |-> y,
         count_x |-> IF counted THEN CenterX(W, cw) ELSE 0,
         count_y |-> IF counted THEN y + th + Spacing(fs) ELSE 0]

RenderInit ==
    /\ rargs \in [img_height : Heights, img_width : Widths,
                  font_size_percent : Percents, position : Positions,
                  num_images : Counts \cup {None}]
    /\ rout = NoLayout

RenderIdle ==
    /\ rargs = [img_height |-> 1, img_width |-> 1, font_size_percent |-> 5,
                position |-> "bottom", num_images |-> None]
    /\ rout = NoLayout

\* The call runs to img.save: the text metrics are whatever the font yields.
AddTextToImage ==
    /\ rout.ended = "no"
    /\ \E tw \in 0..MaxTextWidth, th \in 0..MaxTextHeight :
         \E cw \in (IF rargs.num_images = None THEN {0} ELSE 0..MaxTextWidth),
            ch \in (IF rargs.num_images = None THEN {0} ELSE 0..MaxTextHeight) :
            rout' = Layout(rargs, tw, th, cw, ch)
    /\ UNCHANGED <<rargs, pvars, svars, mvars>>

\* Image.open or any later step raises: the handlers print and sys.exit(1).
AddTextToImageFails ==
    /\ rout.ended = "no"
    /\ rout' = [NoLayout EXCEPT !.ended = "fatal"]
    /\ UNCHANGED <<rargs, pvars, svars, mvars>>

(***************************************************************************)
(* Regular-expression matching on token sequences.  At(s, i) is s[i], or   *)
(* a token no pattern matches past the end of s.                           *)
(***************************************************************************)
At(s, i) == IF i >= 1 /\ i <= Len(s) THEN s[i] ELSE "<end>"

\* \d+ and \s* / \s+ are greedy; the index after the longest run from i
RECURSIVE SkipDigits(_, _)
SkipDigits(s, i) == IF IsDigit(At(s, i)) THEN SkipDigits(s, i + 1) ELSE i

RECURSIVE SkipSpaces(_, _)
SkipSpaces(s, i) == IF IsSpace(At(s, i)) THEN SkipSpaces(s, i + 1) ELSE i

\* [^)]+ is greedy: the index of the first ")" at or after i, or past the end
RECURSIVE SkipToClose(_, _)
SkipToClose(s, i) ==
    IF i > Len(s) \/ s[i] = ")" THEN i ELSE SkipToClose(s, i + 1)

(***************************************************************************)
(* _update_prompt_file: re.sub(r'\(\d+\s+images?\)', '(<n> <word>)', ...)  *)
(***************************************************************************)
\* A defect the pattern does not have: its final \) is missing, so a match
\* stops before the ")"
CountMatchEnd_NoClose(s, i) ==
    LET d == SkipDigits(s, i + 1)
        w == SkipSpaces(s, d)
        e == IF At(s, w + 1) = "s" THEN w + 2 ELSE w + 1
    IN  IF /\ At(s, i) = "("
           /\ d > i + 1
           /\ w > d
           /\ At(s, w) = "image"
        THEN e ELSE 0

\* The index after a match of \(\d+\s+images?\) that starts at i; 0 if none.
CountMatchEnd(s, i) ==
    LET d == SkipDigits(s, i + 1)
        w == SkipSpaces(s, d)
        e == IF At(s, w + 1) = "s" THEN w + 2 ELSE w + 1
    IN  IF /\ At(s, i) = "("
           /\ d > i + 1
           /\ w > d
           /\ At(s, w) = "image"
           /\ At(s, e) = ")"
        THEN e + 1 ELSE 0

\* re.sub: leftmost matches, not overlapping, each replaced by repl
RECURSIVE SubCount(_, _, _)
SubCount(s, i, repl) ==
    IF i > Len(s) THEN <<>>
    ELSE LET e == CountMatchEnd(s, i)
         IN  IF e > 0 THEN repl \o SubCount(s, e, repl)
             ELSE <<s[i]>> \o SubCount(s, i + 1, repl)

UpdatePromptText(content, n) ==
    SubCount(content, 1, <<"(">> \o Str(n) \o <<" ">> \o ImageWord(n) \o <<")">>)

\* A file that does not exist
Absent == <<"<absent>">>

\* if not file_path.exists(): return; else read, substitute, write
UpdatePromptFileContent(content, n) ==
    IF content = Absent THEN Absent ELSE UpdatePromptText(content, n)

PromptTokens == {"(", ")", "1", " ", "image", "s"}

RECURSIVE SeqsUpTo(_, _)
SeqsUpTo(S, k) ==
    IF k = 0 THEN {<<>>}
    ELSE LET shorter == SeqsUpTo(S, k - 1)
         IN  shorter \cup {Append(q, t) : q \in shorter, t \in S}

PromptInit ==
    /\ pfile \in SeqsUpTo(PromptTokens, MaxLen) \cup {Absent}
    /\ pnum \in Counts
    /\ pprev = pfile
    /\ pruns = 0

PromptIdle ==
    /\ pfile = <<>>
    /\ pnum = 0
    /\ pprev = <<>>
    /\ pruns = 0

UpdatePromptFile ==
    /\ pruns < MaxRuns
    /\ pfile' = UpdatePromptFileContent(pfile, pnum)
    /\ pprev' = pfile
    /\ pruns' = pruns + 1
    /\ UNCHANGED <<pnum, rvars, svars, mvars>>

(***************************************************************************)
(* _update_socialmedia_file: two substitutions on the shared file.         *)
(***************************************************************************)
\* new_text = f" ({num_images} {image_word})"
NewText(n) == <<" ", "(">> \o Str(n) \o <<" ">> \o ImageWord(n) \o <<")">>

\* The index after a match of <platform>\s*\([^)]+\) that starts at i; 0 if none.
AnnotationEnd(s, i, platform) ==
    LET o == SkipSpaces(s, i + 1)
        c == SkipToClose(s, o + 1)
    IN  IF /\ At(s, i) = platform
           /\ At(s, o) = "("
           /\ c > o + 1
           /\ At(s, c) = ")"
        THEN c + 1 ELSE 0

\* re.sub(rf'{platform}\s*\([^)]+\)', platform, content)
RECURSIVE RemoveAnnotation(_, _, _)
RemoveAnnotation(s, i, platform) ==
    IF i > Len(s) THEN <<>>
    ELSE LET e == AnnotationEnd(s, i, platform)
         IN  IF e > 0 THEN <<platform>> \o RemoveAnnotation(s, e, platform)
             ELSE <<s[i]>> \o RemoveAnnotation(s, i + 1, platform)

\* <platform>(?=\s*[&!]) matches at i
BeforePunctuation(s, i, platform) ==
    /\ At(s, i) = platform
    /\ At(s, SkipSpaces(s, i + 1)) \in {"&", "!"}

\* re.sub(rf'{platform}(?=\s*[&!])', f'{platform}{new_text}', content)
RECURSIVE InsertAnnotation(_, _, _, _)
InsertAnnotation(s, i, platform, new_text) ==
    IF i > Len(s) THEN <<>>
    ELSE IF BeforePunctuation(s, i, platform)
         THEN <<platform>> \o new_text \o InsertAnnotation(s, i + 1, platform, new_text)
         ELSE <<s[i]>> \o InsertAnnotation(s, i + 1, platform, new_text)

UpdateSocialText(content, n, platform) ==
    InsertAnnotation(RemoveAnnotation(content, 1, platform), 1, platform, NewText(n))

\* if not file_path.exists(): return; else read, substitute twice, write
UpdateSocialFileContent(content, n, platform) ==
    IF content = Absent THEN Absent ELSE UpdateSocialText(content, n, platform)

Platforms == {"Patreon", "Fanvue"}

\* socialmedia.txt is drawn as up to MaxSegs segments: every single token, a
\* parenthesised group "(x)" and a count annotation " (1 image)".
Segments ==
    {<<"Patreon">>, <<"Fanvue">>, <<" ">>, <<"!">>, <<"&">>, <<"(">>, <<")">>,
     <<"x">>, <<"(", "x", ")">>, <<" ", "(", "1", " ", "image", ")">>}

RECURSIVE Concats(_, _)
Concats(S, k) ==
    IF k = 0 THEN {<<>>}
    ELSE LET shorter == Concats(S, k - 1)
         IN  shorter \cup {q \o t : q \in shorter, t \in S}

SocialInit ==
    /\ sfile \in Concats(Segments, MaxSegs)
    /\ sinit = sfile
    /\ snum \in [Platforms -> Counts]
    /\ sprev = sfile
    /\ slast = <<>>

SocialIdle ==
    /\ sfile = <<>>
    /\ sinit = <<>>
    /\ snum = [q \in Platforms |-> 0]
    /\ sprev = <<>>
    /\ slast = <<>>

UpdateSocialmediaFile(platform) ==
    /\ Len(slast) < MaxRuns
    /\ sfile' = UpdateSocialFileContent(sfile, snum[platform], platform)
    /\ sprev' = sfile
    /\ slast' = Append(slast, platform)
    /\ UNCHANGED <<sinit, snum, rvars, pvars, mvars>>

\* add_number_to_prompts_sfw patches for Patreon, ..._nsfw for Fanvue
UpdateSocialPatreon == UpdateSocialmediaFile("Patreon")
UpdateSocialFanvue == UpdateSocialmediaFile("Fanvue")

(***************************************************************************)
(* main: the pipeline over one configuration.                              *)
(***************************************************************************)
Paths == {"a.png", "b.png", "c.png"}
NoPosition == "<absent>"
NoVariant == [input_image |-> "-", output_image |-> "-", position |-> NoPosition]
Variants == [input_image : Paths, output_image : Paths,
             position : Positions \cup {NoPosition}]
\* position is drawn for the safe variant only: main reads it for neither
NsfwVariants == {v \in Variants : v.position = NoPosition}

Configs ==
    {[has_sfw |-> TRUE, has_nsfw |-> TRUE, sfw |-> s, nsfw |-> n] :
        s \in Variants, n \in NsfwVariants}
    \cup {[has_sfw |-> TRUE, has_nsfw |-> FALSE, sfw |-> s, nsfw |-> NoVariant] :
        s \in Variants}
    \cup {[has_sfw |-> FALSE, has_nsfw |-> TRUE, sfw |-> NoVariant, nsfw |-> n] :
        n \in NsfwVariants}
    \cup {[has_sfw |-> FALSE, has_nsfw |-> FALSE, sfw |-> NoVariant, nsfw |-> NoVariant]}

\* Image files: a file main found, no file, or a file img.save wrote
Original(p) == [kind |-> "original", of |-> p, variant |-> "-",
                position |-> "-", num_images |-> None]
NoFile == [kind |-> "absent", of |-> "-", variant |-> "-",
           position |-> "-", num_images |-> None]
Overlaid(src, variant, position, n) ==
    [kind |-> "overlay", of |-> src, variant |-> variant,
     position |-> position, num_images |-> n]

\* str(Path(project_folder) / name), and the bare name
FullPath(name) == <<"project_folder", name>>
BareName(name) == <<name>>

PromptFiles == {"patreon.txt", "fanvue.txt", "socialmedia.txt"}
PromptsFolder ==
    [f \in PromptFiles |->
        IF f = "socialmedia.txt"
        THEN <<"Patreon", " ", "&", " ", "Fanvue", "!">>
        ELSE <<"x", " ", "(", "1", " ", "image", ")">>]
NoPromptsFolder == [f \in PromptFiles |-> Absent]

\* The three downstream documents, as main finds them (each with the keys it sets)
OldSink == [sfw_file |-> <<"old">>, nsfw_file |-> <<"old">>,
            preview_image |-> <<"old">>]

MainInit ==
    /\ config \in Configs
    /\ \E missing \in Paths \cup {"-"} :
         disk = [q \in Paths |-> IF q = missing THEN NoFile ELSE Original(q)]
    /\ disk_in = disk
    /\ prompts \in {PromptsFolder, NoPromptsFolder}
    /\ pc = "sfw"
    /\ exit_status = "running"
    /\ calls = <<>>
    /\ attempted = <<>>
    /\ warnings = {}
    /\ sinks = [k \in {"telegram", "x", "fanvue"} |-> OldSink]
    /\ overlay = [disk |-> disk, prompts |-> prompts]

MainIdle ==
    /\ config = [has_sfw |-> FALSE, has_nsfw |-> FALSE,
                 sfw |-> NoVariant, nsfw |-> NoVariant]
    /\ disk = [q \in Paths |-> NoFile]
    /\ disk_in = disk
    /\ prompts = NoPromptsFolder
    /\ pc = "idle"
    /\ exit_status = "running"
    /\ calls = <<>>
    /\ attempted = <<>>
    /\ warnings = {}
    /\ sinks = [k \in {"telegram", "x", "fanvue"} |-> OldSink]
    /\ overlay = [disk |-> disk, prompts |-> prompts]

\* add_number_to_prompts_sfw / add_number_to_prompts_nsfw
AddNumberToPrompts(files, own, platform, n) ==
    [files EXCEPT
        ![own] = UpdatePromptFileContent(@, n),
        !["socialmedia.txt"] = UpdateSocialFileContent(@, n, platform)]

\* The position main hands to add_text_to_image: neither call passes one, so
\* the parameter's default applies.
PassedPosition(v) == "bottom"

Call(variant, v, n, outcome) ==
    [variant |-> variant, input_path |-> v.input_image,
     output_path |-> v.output_image, position |-> PassedPosition(v),
     num_images |-> n, outcome |-> outcome]

\* The outcomes of add_text_to_image on the disk: a missing input raises
\* FileNotFoundError; an input that opens is saved, or a later step raises.
\* img.save is taken to write the whole file or to raise before it writes.
RenderOutcomes(v) ==
    IF disk[v.input_image].kind = "absent" THEN {"fatal"} ELSE {"saved", "fatal"}

\* img.save(output_path)
Saved(variant, v, n) ==
    [disk EXCEPT ![v.output_image] =
        Overlaid(v.input_image, variant, PassedPosition(v), n)]

\* main, lines 326-346: count, patch the prompts, render the safe variant
ProcessSfw ==
    /\ pc = "sfw"
    /\ IF config.has_sfw
       THEN \E n \in Counts, outcome \in RenderOutcomes(config.sfw) :
              /\ prompts' = AddNumberToPrompts(prompts, "patreon.txt", "Patreon", n)
              /\ calls' = Append(calls, Call("sfw", config.sfw, n, outcome))
              /\ IF outcome = "saved"
                 THEN /\ disk' = Saved("sfw", config.sfw, n)
                      /\ pc' = "nsfw"
                      /\ UNCHANGED exit_status
                 ELSE /\ pc' = "exit"
                      /\ exit_status' = "1"
                      /\ UNCHANGED disk
       ELSE /\ pc' = "nsfw"
            /\ UNCHANGED <<prompts, calls, disk, exit_status>>
    /\ UNCHANGED <<config, disk_in, attempted, warnings, sinks, overlay,
                   rvars, pvars, svars>>

\* A defect the restricted variant's block does not have: the fatal handler
\* removes the files written so far and lets main go on.
ProcessNsfw_RollsBack ==
    /\ pc = "nsfw"
    /\ IF config.has_nsfw
       THEN \E n \in Counts, outcome \in RenderOutcomes(config.nsfw) :
              /\ calls' = Append(calls, Call("nsfw", config.nsfw, n, outcome))
              /\ IF outcome = "saved"
                 THEN /\ prompts' = AddNumberToPrompts(prompts, "fanvue.txt", "Fanvue", n)
                      /\ disk' = Saved("nsfw", config.nsfw, n)
                      /\ exit_status' = exit_status
                 ELSE /\ prompts' = prompts
                      /\ disk' = disk_in
                      /\ exit_status' = "1"
              /\ pc' = "telegram"
              /\ overlay' = [disk |-> disk', prompts |-> prompts']
       ELSE /\ pc' = "telegram"
            /\ overlay' = [disk |-> disk, prompts |-> prompts]
            /\ UNCHANGED <<prompts, calls, disk, exit_status>>
    /\ UNCHANGED <<config, disk_in, attempted, warnings, sinks,
                   rvars, pvars, svars>>

\* main, lines 348-372: count, patch the prompts, render the restricted
\* variant, then print "All images processed successfully!"
ProcessNsfw ==
    /\ pc = "nsfw"
    /\ IF config.has_nsfw
       THEN \E n \in Counts, outcome \in RenderOutcomes(config.nsfw) :
              /\ prompts' = AddNumberToPrompts(prompts, "fanvue.txt", "Fanvue", n)
              /\ calls' = Append(calls, Call("nsfw", config.nsfw, n, outcome))
              /\ IF outcome = "saved"
                 THEN /\ disk' = Saved("nsfw", config.nsfw, n)
                      /\ pc' = "telegram"
                      /\ overlay' = [disk |-> disk', prompts |-> prompts']
                      /\ UNCHANGED exit_status
                 ELSE /\ pc' = "exit"
                      /\ exit_status' = "1"
                      /\ UNCHANGED <<disk, overlay>>
       ELSE /\ pc' = "telegram"
            /\ overlay' = [disk |-> disk, prompts |-> prompts]
            /\ UNCHANGED <<prompts, calls, disk, exit_status>>
    /\ UNCHANGED <<config, disk_in, attempted, warnings, sinks,
                   rvars, pvars, svars>>

\* sfw_output / nsfw_output / sfw_input, lines 375-379; <<>> stands for None
SfwOutput == IF config.has_sfw THEN FullPath(config.sfw.output_image) ELSE <<>>
NsfwOutput == IF config.has_nsfw THEN FullPath(config.nsfw.output_image) ELSE <<>>
SfwInput == IF config.has_sfw THEN BareName(config.sfw.input_image) ELSE <<>>

\* telegram_config["media"][...] = ...  (and the same for x-api)
MediaUpdated(old) ==
    [old EXCEPT
        !.sfw_file = IF SfwOutput # <<>> THEN SfwOutput ELSE @,
        !.nsfw_file = IF NsfwOutput # <<>> THEN NsfwOutput ELSE @]

\* fanvue_config["post_preview"]["preview_image"] = sfw_input (the document
\* is taken to hold a post_preview section)
PreviewUpdated(old) ==
    [old EXCEPT !.preview_image = IF SfwInput # <<>> THEN SfwInput ELSE @]

\* One try/except block of lines 381-434: the update succeeds, or something
\* in it raises and the handler prints [WARNING]; either way main goes on.
DownstreamUpdate(at, name, next, updated) ==
    /\ pc = at
    /\ attempted' = Append(attempted, name)
    /\ \E ok \in BOOLEAN :
         IF ok
         THEN /\ sinks' = [sinks EXCEPT ![name] = updated]
              /\ UNCHANGED warnings
         ELSE /\ warnings' = warnings \cup {name}
              /\ UNCHANGED sinks
    /\ pc' = next
    /\ exit_status' = IF next = "done" THEN "0" ELSE exit_status
    /\ UNCHANGED <<config, disk, disk_in, prompts, calls, overlay,
                   rvars, pvars, svars>>

\* A defect the code does not have: a failed update ends the process
UpdateTelegram_Aborts ==
    /\ pc = "telegram"
    /\ attempted' = Append(attempted, "telegram")
    /\ \E ok \in BOOLEAN :
         IF ok
         THEN /\ sinks' = [sinks EXCEPT !["telegram"] = MediaUpdated(sinks["telegram"])]
              /\ pc' = "x"
              /\ UNCHANGED <<warnings, exit_status>>
         ELSE /\ warnings' = warnings \cup {"telegram"}
              /\ pc' = "exit"
              /\ exit_status' = "1"
              /\ UNCHANGED sinks
    /\ UNCHANGED <<config, disk, disk_in, prompts, calls, overlay,
                   rvars, pvars, svars>>

UpdateTelegram ==
    DownstreamUpdate("telegram", "telegram", "x", MediaUpdated(sinks["telegram"]))
UpdateX ==
    DownstreamUpdate("x", "x", "fanvue", MediaUpdated(sinks["x"]))
UpdateFanvue ==
    DownstreamUpdate("fanvue", "fanvue", "done", PreviewUpdated(sinks["fanvue"]))

(***************************************************************************)
(* The specifications.  Spec is main's pipeline; the other three apply one *)
(* function to drawn inputs.                                               *)
(***************************************************************************)
Init == MainInit /\ RenderIdle /\ PromptIdle /\ SocialIdle
Next ==
    \/ ProcessSfw
    \/ ProcessNsfw
    \/ UpdateTelegram
    \/ UpdateX
    \/ UpdateFanvue
Spec == Init /\ [][Next]_vars

RenderStart == RenderInit /\ PromptIdle /\ SocialIdle /\ MainIdle
RenderNext == AddTextToImage \/ AddTextToImageFails
RenderSpec == RenderStart /\ [][RenderNext]_vars

PromptStart == PromptInit /\ RenderIdle /\ SocialIdle /\ MainIdle
PromptNext == UpdatePromptFile
PromptSpec == PromptStart /\ [][PromptNext]_vars

SocialStart == SocialInit /\ RenderIdle /\ PromptIdle /\ MainIdle
SocialNext == UpdateSocialPatreon \/ UpdateSocialFanvue
SocialSpec == SocialStart /\ [][SocialNext]_vars

(***************************************************************************)
(* Claims about main, checked under Spec.                                  *)
(***************************************************************************)
InputPaths ==
    (IF config.has_sfw THEN {config.sfw.input_image} ELSE {})
    \cup (IF config.has_nsfw THEN {config.nsfw.input_image} ELSE {})

InSeq(q) == {q[i] : i \in 1..Len(q)}

\* C1: once the overlay work is done, the telegram, x and fanvue updates are
\* each entered, in that order, whichever of them failed; a failure only adds
\* a warning; the images and prompt files stay as the overlay work left them;
\* and the process ends with exit status 0.
C1_DownstreamBestEffort ==
    /\ pc = "x" => attempted = <<"telegram">>
    /\ pc = "fanvue" => attempted = <<"telegram", "x">>
    /\ pc = "done" => attempted = <<"telegram", "x", "fanvue">> /\ exit_status = "0"
    /\ pc \in {"telegram", "x", "fanvue"} => exit_status = "running" /\ ENABLED Next
    /\ attempted # <<>> => pc \in {"x", "fanvue", "done"}
    /\ pc \in {"telegram", "x", "fanvue", "done"} =>
         /\ disk = overlay.disk
         /\ prompts = overlay.prompts
         /\ warnings \subseteq InSeq(attempted)

\* C1's case: telegram and fanvue failed, x succeeded, and main ended with
\* status 0 and the safe variant's output on disk.
C1_Witness ==
    /\ pc = "done"
    /\ exit_status = "0"
    /\ warnings = {"telegram", "fanvue"}
    /\ sinks["x"].sfw_file = SfwOutput
    /\ config.has_sfw
    /\ disk[config.sfw.output_image].kind = "overlay"

\* The placement the configuration asks for: sfw.position, bottom if absent
ConfiguredPosition(v) == IF v.position = NoPosition THEN "bottom" ELSE v.position

\* C3: every call that renders the safe variant is given the position
\* configured under sfw (bottom when the key is absent).
C3_SfwPositionConfigured ==
    \A i \in 1..Len(calls) :
        calls[i].variant = "sfw" => calls[i].position = ConfiguredPosition(config.sfw)

\* C4: the input image files of both variants hold, at every point of the
\* run, the content main found in them.
C4_InputsUntouched ==
    \A q \in InputPaths : disk[q] = disk_in[q]

NsfwFailed ==
    /\ calls # <<>>
    /\ calls[Len(calls)].variant = "nsfw"
    /\ calls[Len(calls)].outcome = "fatal"

\* What the prompt files hold once patched with the counts of the calls made
ExpectedPrompts ==
    LET sfwText == IF config.has_sfw THEN NewText(calls[1].num_images) ELSE <<>>
        nsfwN == calls[Len(calls)].num_images
    IN  [f \in PromptFiles |->
            IF f = "socialmedia.txt"
            THEN <<"Patreon">> \o sfwText \o <<" ", "&", " ", "Fanvue">>
                 \o NewText(nsfwN) \o <<"!">>
            ELSE IF f = "patreon.txt"
            THEN <<"x">> \o (IF config.has_sfw THEN sfwText
                             ELSE <<" ", "(", "1", " ", "image", ")">>)
            ELSE <<"x">> \o NewText(nsfwN)]

\* C5: when the restricted variant's render is fatal the process has ended
\* with status 1 and takes no further step, no downstream update was entered
\* or written, the safe variant's output is on disk as rendered, every other
\* image file is as main found it, and the prompt files carry both patches.
C5_NsfwFatalExits ==
    NsfwFailed =>
        /\ pc = "exit"
        /\ exit_status = "1"
        /\ ~ENABLED Next
        /\ attempted = <<>>
        /\ warnings = {}
        /\ \A k \in DOMAIN sinks : sinks[k] = OldSink
        /\ \A q \in Paths :
             IF config.has_sfw /\ q = config.sfw.output_image
             THEN disk[q] = Overlaid(config.sfw.input_image, "sfw",
                                     calls[1].position, calls[1].num_images)
             ELSE disk[q] = disk_in[q]
        /\ prompts \in {NoPromptsFolder, ExpectedPrompts}

\* C5's case: the safe variant was saved and the prompts patched, then the
\* restricted variant's render failed.
C5_Witness ==
    /\ NsfwFailed
    /\ Len(calls) = 2
    /\ calls[1].outcome = "saved"
    /\ disk[config.sfw.output_image].kind = "overlay"
    /\ prompts # NoPromptsFolder
    /\ prompts # PromptsFolder
    /\ pc = "exit"

(***************************************************************************)
(* Claims about add_text_to_image, checked under RenderSpec.               *)
(***************************************************************************)
Counted == rargs.num_images # None

\* C2: the annotation text is "(<n> image)" for n = 1 and "(<n> images)" for
\* every other count, 0 included.
C2_CountTextPlural ==
    (rout.ended = "saved" /\ Counted) =>
        rout.count_text =
            <<"(">> \o Str(rargs.num_images) \o <<" ">>
            \o (IF rargs.num_images = 1 THEN <<"image">> ELSE <<"image", "s">>)
            \o <<")">>

\* The block height of the claim: the caption's height plus, with an
\* annotation, the gap drawn between the two lines and the annotation's height
BlockHeight ==
    rout.text_height
    + (IF Counted
       THEN (rout.count_y - rout.y - rout.text_height) + rout.count_height
       ELSE 0)

\* q is the floor of a / b, for b > 0
IsFloorDiv(q, a, b) == b * q <= a /\ a < b * q + b

\* C8: with H the image height and T the block height: for bottom,
\* y + T + floor(H/10) = H; for top, y = floor(H/10); for center,
\* y = floor((H - T)/2); and each line's x is floor((W - lineWidth)/2).
C8_Placement ==
    rout.ended = "saved" =>
        LET H == rargs.img_height
            W == rargs.img_width
            T == BlockHeight
        IN  /\ rout.total_height = T
            /\ rargs.position = "bottom" =>
                 \E m \in 0..H : IsFloorDiv(m, H, 10) /\ rout.y + T + m = H
            /\ rargs.position = "top" => IsFloorDiv(rout.y, H, 10)
            /\ rargs.position = "center" => IsFloorDiv(rout.y, H - T, 2)
            /\ IsFloorDiv(rout.x, W - rout.text_width, 2)
            /\ Counted => IsFloorDiv(rout.count_x, W - rout.count_width, 2)

\* C8's case: a centred block taller than the image and lines wider than it,
\* where floor division and truncation differ.
C8_Witness ==
    /\ rout.ended = "saved"
    /\ Counted
    /\ rargs.position = "center"
    /\ (rargs.img_height - rout.total_height) % 2 = 1
    /\ rout.y < 0
    /\ rout.x < 0
    /\ rout.count_x < 0

\* C9 as stated: the font size is H * p / 100 rounded to the nearest integer.
C9_FontSizeRounded ==
    rout.ended = "saved" =>
        LET e == rargs.img_height * rargs.font_size_percent
        IN  100 * rout.font_size - 50 <= e /\ e <= 100 * rout.font_size + 50

\* C9, amended: the font size is H * p / 100 truncated, not rounded: it is the
\* floor of the exact quotient when that is no integer, and the quotient or
\* one less (the double product falling just short) when it is.
C9_FontSizeTruncated ==
    rout.ended = "saved" =>
        LET e == rargs.img_height * rargs.font_size_percent
        IN  /\ 100 * rout.font_size <= e
            /\ IF e % 100 = 0
               THEN e <= 100 * rout.font_size + 100
               ELSE e < 100 * rout.font_size + 100

\* C9's case: a quotient whose fraction is above one half, where rounding
\* would give one more.
C9_Witness ==
    /\ rout.ended = "saved"
    /\ (rargs.img_height * rargs.font_size_percent) % 100 > 50
    /\ rout.font_size > 0

(***************************************************************************)
(* The claim about _update_prompt_file, checked under PromptSpec.          *)
(***************************************************************************)
\* C6: a second patch with the same count leaves the file as the first patch
\* left it.
C6_PromptPatchIdempotent ==
    pruns >= 2 => pfile = pprev

\* C6's case: "(1 image)" patched twice with count 2; the first patch rewrote
\* it and the second matched the rewritten, plural annotation.
C6_Witness ==
    /\ pruns = 2
    /\ pnum = 2
    /\ pfile = <<"(", "2", " ", "image", "s", ")">>

(***************************************************************************)
(* Claims about _update_socialmedia_file, checked under SocialSpec.        *)
(***************************************************************************)
Other(platform) == IF platform = "Patreon" THEN "Fanvue" ELSE "Patreon"

\* The annotation of each occurrence of platform in s, in order: the spaces
\* and the "(<digits> image(s))" that follow the token, or <<>> for none
Annotations(s, platform) ==
    LET at == {i \in 1..Len(s) : s[i] = platform}
        note(i) == LET e == CountMatchEnd(s, SkipSpaces(s, i + 1))
                   IN  IF e > 0 THEN SubSeq(s, i + 1, e - 1) ELSE <<>>
        RECURSIVE collect(_)
        collect(i) == IF i > Len(s) THEN <<>>
                      ELSE IF i \in at THEN <<note(i)>> \o collect(i + 1)
                      ELSE collect(i + 1)
    IN  collect(1)

\* C7: a patch for one platform leaves the occurrences of the other platform
\* and the annotation of each as they were, and the two patches give the same
\* file in either order.
C7_PlatformsIndependent ==
    /\ slast # <<>> =>
         Annotations(sfile, Other(slast[Len(slast)]))
             = Annotations(sprev, Other(slast[Len(slast)]))
    /\ (Len(slast) = 2 /\ slast[1] # slast[2]) =>
         sfile = UpdateSocialFileContent(
                     UpdateSocialFileContent(sinit, snum[slast[2]], slast[2]),
                     snum[slast[1]], slast[1])

\* The index after the spaces and the parenthesised groups that start at
\* index i; a group is "(...)" around one token at least, none of them "(" or
\* a platform token
RECURSIVE SkipGroups(_, _)
SkipGroups(s, i) ==
    LET o == SkipSpaces(s, i)
        c == SkipToClose(s, o + 1)
    IN  IF /\ At(s, o) = "("
           /\ c > o + 1
           /\ At(s, c) = ")"
           /\ \A k \in (o + 1)..(c - 1) : s[k] \notin Platforms \cup {"("}
        THEN SkipGroups(s, c + 1) ELSE o

\* The occurrence of the platform token at i is followed by exactly the
\* annotation note and then, after spaces at most, by ! or &
CarriesOnly(s, i, note) ==
    /\ i + Len(note) <= Len(s)
    /\ SubSeq(s, i + 1, i + Len(note)) = note
    /\ At(s, SkipSpaces(s, i + Len(note) + 1)) \in {"!", "&"}

\* C10: a second patch for the same platform and count changes nothing, and
\* after a patch every occurrence of the platform that ! or & follows, past
\* any parenthesised groups, carries exactly the one fresh annotation.
C10_SocialPatchIdempotent ==
    /\ (Len(slast) >= 2 /\ slast[Len(slast)] = slast[Len(slast) - 1]) =>
         sfile = sprev
    /\ slast # <<>> =>
         LET platform == slast[Len(slast)]
         IN  \A i \in 1..Len(sfile) :
                 (sfile[i] = platform
                     /\ At(sfile, SkipGroups(sfile, i + 1)) \in {"!", "&"})
                 => CarriesOnly(sfile, i, NewText(snum[platform]))

====
